---- MODULE Spec2Model ----
(***************************************************************************)
(* Model of the chat orchestration of the knowledge assistant: the App     *)
(* component (four snapshots of it live in the sources), the ChatInput     *)
(* form that calls it, the knowledge files with their extraction, and the  *)
(* TokenEstimator of the settings panel.                                   *)
(*                                                                         *)
(*   variant 1  src/App.tsx 96-356              no local refusal; sources  *)
(*   variant 2  src/App.tsx 469-810             refusal; env key gate      *)
(*   variant 3  src/unnamed/part_000 98-530     env key check; regex       *)
(*   variant 4  src/unnamed/part_000 698-1114   key dialog; regex          *)
(*                                                                         *)
(* Strings are sequences of one-character strings; a fixed display text is *)
(* a one-element sequence holding the whole text.                          *)
(***************************************************************************)
EXTENDS Integers, Sequences, FiniteSets, TLC

VARIABLES
    variant,          \* which snapshot of App runs (fixed after Init)
    apiKey,           \* a credential is available (process.env.API_KEY, or the apiKey state of variant 4)
    knowledgeBase,    \* useState<string>
    uiKnowledgeBase,  \* the knowledgeBase that the handleSendMessage of the last render closes over
    messages,         \* useState<Message[]>
    INITIAL_MESSAGE,  \* the module-level object that [INITIAL_MESSAGE] shares by reference
    isLoading,        \* useState<boolean>
    uiLoading,        \* the isLoading prop as last rendered into ChatInput
    error,            \* useState<string | null>
    totalTokensUsed,  \* useState<number>
    stopStreamingRef, \* useRef(false).current
    nextTurn,         \* number of the next call of handleSendMessage that appends messages
    turn,             \* the locals of each call of handleSendMessage
    knowledgeFiles,   \* useState<File[]>, the files by name
    isParsing,        \* useState<boolean>
    nextJob,          \* number of the next call of updateKnowledgeBase that extracts
    job,              \* the locals of each call of updateKnowledgeBase
    generation,       \* the last call of runChatStream: its arguments and the request it built
    ranking,          \* the last call of rank: its arguments, the chunks it retained, its context
    chunking          \* the last call of chunk: its arguments and the chunks it returned

vars == <<variant, apiKey, knowledgeBase, uiKnowledgeBase, messages, INITIAL_MESSAGE,
          isLoading, uiLoading, error, totalTokensUsed, stopStreamingRef, nextTurn, turn,
          knowledgeFiles, isParsing, nextJob, job, generation, ranking, chunking>>

\* The state of the knowledge files and of their extraction.
fileVars == <<knowledgeFiles, isParsing, nextJob, job>>

\* The calls of the retrieval and generation services, which keep no state of
\* their own: the variables record the last call of each.
pipelineVars == <<generation, ranking, chunking>>

----------------------------------------------------------------------------
(* Bounds *)

MaxTurns == 2

MaxChunks == 2

Turns == 1..MaxTurns

\* Calls of updateKnowledgeBase that reach the extraction, per behaviour.
MaxJobs == 2

Jobs == 1..MaxJobs

Variants == 1..4

----------------------------------------------------------------------------
(* Values *)

\* An optional value is a sequence of at most one element: <<>> is undefined / null.
Unset == <<>>

Some(v) == <<v>>

NoChunk == <<>>

NoUsage == <<>>

NoError == <<>>

T5 == <<"H", "e", "l", "l", "o">>

T7 == <<" ", "w", "o", "r", "l", "d", "!">>

\* The texts of the chunks of a stream, by position: the code only
\* concatenates them, so one text per position stands for any.
ChunkTexts == <<T5, T7>>

ChunkTextAt(k) == ChunkTexts[((k - 1) % Len(ChunkTexts)) + 1]

\* What a chunk carries besides its text: usageMetadata?.totalTokenCount and
\* the grounding sources. Any chunk of a stream may or may not carry them.
Metadata ==
    { [usage |-> NoUsage,    sources |-> <<>>],
      [usage |-> <<600000>>, sources |-> <<"S1">>] }

\* The k-th chunk of a stream, carrying the metadata m.
Chunk(k, m) == [text |-> ChunkTextAt(k), usage |-> m.usage, sources |-> m.sources]

Queries == { <<>>, <<" ">>, <<"q">> }

KBValues == { <<>>, <<" ", "\n">>, <<"k", "b">> }

\* event.newValue || '' of a storage event.
StorageValues == { <<>>, <<"k", "b">> }

\* The PDF files the user can choose, by name.
Files == { "a", "b" }

\* What extractTextFromPDF returns for a file: the text of each page followed
\* by a line break.  File b has one page, without text.
FileText(f) == IF f = "a" THEN <<"A", "\n">> ELSE <<" ", "\n">>

\* event.target.files of a change event of the file input.
Selections == { <<"a">>, <<"b">>, <<"a", "b">>, <<"b", "a">> }

ParseErrorText == <<"Failed to process one or more PDF files. They may be corrupted or protected.">>

PasswordErrorText == <<"One of the PDF files is password protected and cannot be read.">>

\* The message of the catch block of updateKnowledgeBase, by error.name.
ParseErrors == { ParseErrorText, PasswordErrorText }

GreetingText == <<"Buongiorno! Sono il tuo assistente di conoscenza.">>

RefusalText == <<"E' necessario fornire i pdf per la base di conoscenza">>

ConfigErrorText == <<"Errore di configurazione: La chiave API di Gemini non e' stata trovata.">>

API_KEY_INSTRUCTIONS == <<"Errore di Configurazione: Chiave API Mancante">>

GenericErrorText == <<"Si e' verificato un errore inatteso. Riprova.">>

GenericErrorConsoleText == <<"Si e' verificato un errore inatteso. Riprova. Controlla la console del browser per maggiori dettagli.">>

InvalidKeyText == <<"La chiave API fornita non e' valida o non ha i permessi necessari.">>

InvalidKeyBannerText == <<"La chiave API fornita non e' valida. Per favore, inseriscine una nuova.">>

BillingText == <<"Si e' verificato un problema di fatturazione con il tuo account Google Cloud.">>

\* Raw error texts (err.message), as sequences of characters.
ErrInvalidKey ==
    <<"A", "P", "I", " ", "k", "e", "y", " ", "n", "o", "t", " ", "v", "a", "l", "i", "d",
      ".", " ", "P", "l", "e", "a", "s", "e", " ", "p", "a", "s", "s", " ", "a", " ", "v",
      "a", "l", "i", "d", " ", "A", "P", "I", " ", "k", "e", "y", ".">>

ErrNetwork ==
    <<"F", "a", "i", "l", "e", "d", " ", "t", "o", " ", "f", "e", "t", "c", "h">>

\* The errors the chat model lets the provider raise.
ProviderErrors == { ErrInvalidKey, ErrNetwork }

\* The invalid-key phrase after the billing phrase.
ErrBillingInvalidKey ==
    <<"B", "i", "l", "l", "i", "n", "g", " ", "i", "s", " ", "d", "i", "s", "a", "b",
      "l", "e", "d", ".", " ", "A", "P", "I", " ", "k", "e", "y", " ", "n", "o", "t",
      " ", "v", "a", "l", "i", "d", ".">>

\* The billing phrase after an invalid-key phrase, in capitals.
ErrDeniedBilling ==
    <<"P", "E", "R", "M", "I", "S", "S", "I", "O", "N", " ", "D", "E", "N", "I", "E",
      "D", ":", " ", "B", "I", "L", "L", "I", "N", "G", " ", "N", "O", "T", " ", "E",
      "N", "A", "B", "L", "E", "D">>

ErrBilling ==
    <<"B", "i", "l", "l", "i", "n", "g", " ", "a", "c", "c", "o", "u", "n", "t", " ",
      "n", "o", "t", " ", "f", "o", "u", "n", "d">>

ErrEntityNotFound ==
    <<"R", "e", "q", "u", "e", "s", "t", "e", "d", " ", "e", "n", "t", "i", "t", "y",
      " ", "w", "a", "s", " ", "n", "o", "t", " ", "f", "o", "u", "n", "d", ".">>

ErrTokenLimit ==
    <<"t", "o", "k", "e", "n", " ", "l", "i", "m", "i", "t", " ", "e", "x", "c", "e",
      "e", "d", "e", "d">>

ErrRequestTooLong ==
    <<"R", "e", "q", "u", "e", "s", "t", " ", "t", "o", "o", " ", "l", "o", "n", "g">>

ErrPromptTooLong ==
    <<"p", "r", "o", "m", "p", "t", " ", "t", "o", "o", " ", "l", "o", "n", "g">>

TokenLimitErrors == { ErrTokenLimit, ErrRequestTooLong, ErrPromptTooLong }

\* The errors the provider can raise that the classification is examined on.
ClassifiedErrors ==
    ProviderErrors
        \cup { ErrBillingInvalidKey, ErrDeniedBilling, ErrBilling, ErrEntityNotFound }
        \cup TokenLimitErrors

\* The error each runChatStream raises when it finds no key.
ErrNotConfigured ==
    <<"A", "P", "I", " ", "k", "e", "y", " ", "i", "s", " ", "n", "o", "t", " ", "c", "o",
      "n", "f", "i", "g", "u", "r", "e", "d", ".", " ", "P", "l", "e", "a", "s", "e", " ",
      "s", "e", "t", " ", "t", "h", "e", " ", "A", "P", "I", "_", "K", "E", "Y", " ", "e",
      "n", "v", "i", "r", "o", "n", "m", "e", "n", "t", " ", "v", "a", "r", "i", "a", "b",
      "l", "e", ".">>

ErrKeyMissing ==
    <<"A", "P", "I", "_", "K", "E", "Y", "_", "M", "I", "S", "S", "I", "N", "G">>

ErrKeyNotFound ==
    <<"A", "P", "I", " ", "k", "e", "y", " ", "n", "o", "t", " ", "f", "o", "u", "n", "d",
      ".", " ", "P", "l", "e", "a", "s", "e", " ", "m", "a", "k", "e", " ", "s", "u", "r",
      "e", " ", "t", "h", "e", " ", "A", "P", "I", "_", "K", "E", "Y", " ", "e", "n", "v",
      "i", "r", "o", "n", "m", "e", "n", "t", " ", "v", "a", "r", "i", "a", "b", "l", "e",
      " ", "i", "s", " ", "s", "e", "t", ".">>

MissingKeyErrors == { ErrNotConfigured, ErrKeyMissing, ErrKeyNotFound }

----------------------------------------------------------------------------
(* Strings *)

IsSpace(c) == c \in {" ", "\n", "\t"}

RECURSIVE TrimStart(_)
TrimStart(s) ==
    IF s = <<>> THEN <<>>
    ELSE IF IsSpace(Head(s)) THEN TrimStart(Tail(s)) ELSE s

RECURSIVE TrimEnd(_)
TrimEnd(s) ==
    IF s = <<>> THEN <<>>
    ELSE IF IsSpace(s[Len(s)]) THEN TrimEnd(SubSeq(s, 1, Len(s) - 1)) ELSE s

Trim(s) == TrimEnd(TrimStart(s))

RECURSIVE Concat(_)
Concat(ss) == IF ss = <<>> THEN <<>> ELSE Head(ss) \o Concat(Tail(ss))

UpperCase ==
    <<"A", "B", "C", "D", "E", "F", "G", "H", "I", "J", "K", "L", "M",
      "N", "O", "P", "Q", "R", "S", "T", "U", "V", "W", "X", "Y", "Z">>

LowerCase ==
    <<"a", "b", "c", "d", "e", "f", "g", "h", "i", "j", "k", "l", "m",
      "n", "o", "p", "q", "r", "s", "t", "u", "v", "w", "x", "y", "z">>

\* The i flag of a regular expression: letters compare by their lower case.
Lower(c) ==
    IF \E i \in 1..26 : UpperCase[i] = c
    THEN LowerCase[CHOOSE i \in 1..26 : UpperCase[i] = c]
    ELSE c

ToLower(s) == [i \in 1..Len(s) |-> Lower(s[i])]

\* The first position from which w occurs in s at or after from; 0 if none.
IndexOf(s, w, from) ==
    LET hits == { i \in from..(Len(s) - Len(w) + 1) : SubSeq(s, i, i + Len(w) - 1) = w }
    IN  IF hits = {} THEN 0 ELSE CHOOSE i \in hits : \A j \in hits : i <= j

\* /w1.*?w2.*?...wn/ finds a match in s from position from on (s has no line break).
RECURSIVE MatchFrom(_, _, _)
MatchFrom(s, ws, from) ==
    IF ws = <<>> THEN TRUE
    ELSE LET i == IndexOf(s, Head(ws), from)
         IN  IF i = 0 THEN FALSE ELSE MatchFrom(s, Tail(ws), i + Len(Head(ws)))

\* /w1.*?w2.*?...wn/i.test(s), the words ws given in lower case.
InOrder(ws, s) == MatchFrom(ToLower(s), ws, 1)

\* texts.join(separator)
RECURSIVE Join(_, _)
Join(texts, separator) ==
    IF texts = <<>> THEN <<>>
    ELSE IF Len(texts) = 1 THEN texts[1]
    ELSE texts[1] \o separator \o Join(Tail(texts), separator)

Includes(s, ws) ==
    \E i \in 1..(Len(s) - Len(ws) + 1) : SubSeq(s, i, i + Len(ws) - 1) = ws

----------------------------------------------------------------------------
(* Messages *)

Message(role, text, t) == [role |-> role, text |-> text, sources |-> Unset, turn |-> t]

Last(ms) == ms[Len(ms)]

\* newMessages[newMessages.length - 1].<field> = value, on a copy of the array
\* whose elements are the same objects.
WithLast(ms, field, value) ==
    [ms EXCEPT ![Len(ms)] = [ms[Len(ms)] EXCEPT ![field] = value]]

\* The same write as seen through INITIAL_MESSAGE, when the last element is that object.
SharedWrite(ms, field, value) ==
    IF Len(ms) > 0 /\ Last(ms).turn = 0
    THEN [INITIAL_MESSAGE EXCEPT ![field] = value]
    ELSE INITIAL_MESSAGE

----------------------------------------------------------------------------
(* Error classification of the catch blocks *)

\* Every raw error text the model lets a catch block receive.
ErrorTexts == ClassifiedErrors \cup MissingKeyErrors

\* /API.*?key.*?not.*?valid|invalid.*?API.*?key|API.*?key.*?invalid|permission.*?denied/i
InvalidApiKeyPattern(e) ==
    \/ InOrder(<<<<"a", "p", "i">>, <<"k", "e", "y">>, <<"n", "o", "t">>, <<"v", "a", "l", "i", "d">>>>, e)
    \/ InOrder(<<<<"i", "n", "v", "a", "l", "i", "d">>, <<"a", "p", "i">>, <<"k", "e", "y">>>>, e)
    \/ InOrder(<<<<"a", "p", "i">>, <<"k", "e", "y">>, <<"i", "n", "v", "a", "l", "i", "d">>>>, e)
    \/ InOrder(<<<<"p", "e", "r", "m", "i", "s", "s", "i", "o", "n">>, <<"d", "e", "n", "i", "e", "d">>>>, e)

\* The alternative |API_KEY_INVALID that variant 3 adds to the pattern.
ApiKeyInvalidPattern(e) ==
    InOrder(<<<<"a", "p", "i", "_", "k", "e", "y", "_", "i", "n", "v", "a", "l", "i", "d">>>>, e)

\* /billing/i
BillingPattern(e) == InOrder(<<<<"b", "i", "l", "l", "i", "n", "g">>>>, e)

\* The patterns applied to each text of ErrorTexts, once.
InvalidApiKeyTexts == { e \in ErrorTexts : InvalidApiKeyPattern(e) }

ApiKeyInvalidTexts == { e \in ErrorTexts : ApiKeyInvalidPattern(e) }

BillingTexts == { e \in ErrorTexts : BillingPattern(e) }

isInvalidApiKeyError(e) ==
    IF e \in ErrorTexts
    THEN e \in InvalidApiKeyTexts \/ (variant = 3 /\ e \in ApiKeyInvalidTexts)
    ELSE InvalidApiKeyPattern(e) \/ (variant = 3 /\ ApiKeyInvalidPattern(e))

isBillingError(e) == IF e \in ErrorTexts THEN e \in BillingTexts ELSE BillingPattern(e)

\* "API key is not configured"
ApiKeyIsNotConfigured ==
    <<"A", "P", "I", " ", "k", "e", "y", " ", "i", "s", " ", "n", "o", "t", " ", "c", "o",
      "n", "f", "i", "g", "u", "r", "e", "d">>

\* originalErrorMessage.includes("API key is not configured"), for each text
\* of ErrorTexts once.
NotConfiguredTexts == { e \in ErrorTexts : Includes(e, ApiKeyIsNotConfigured) }

IncludesNotConfigured(e) ==
    IF e \in ErrorTexts THEN e \in NotConfiguredTexts ELSE Includes(e, ApiKeyIsNotConfigured)

\* Mutant: the billing pattern is tried before the invalid-key pattern.
categoryBillingFirst(e) ==
    CASE variant = 1 -> "None"
      [] variant = 2 ->
            IF IncludesNotConfigured(e) THEN "MissingCredential" ELSE "Unknown"
      [] OTHER ->
            IF isBillingError(e) THEN "Billing"
            ELSE IF isInvalidApiKeyError(e) THEN "InvalidCredential"
            ELSE "Unknown"

\* The branch of the catch block's if / else if chain that the raw error text
\* e takes, named by the category it stands for; variant 1 has no chain.
category(e) ==
    CASE variant = 1 -> "None"
      [] variant = 2 ->
            IF IncludesNotConfigured(e) THEN "MissingCredential" ELSE "Unknown"
      [] variant = 3 ->
            IF isInvalidApiKeyError(e) THEN "InvalidCredential"
            ELSE IF isBillingError(e) THEN "Billing"
            ELSE "Unknown"
      [] OTHER ->
            IF isInvalidApiKeyError(e) THEN "InvalidCredential" ELSE "Unknown"

\* Mutant: every failure gets the unexpected-error text.
displayErrorMessageUnexpected(e) == GenericErrorText

\* The text the catch block writes for the raw error text e.
displayErrorMessage(e) ==
    CASE variant = 1 -> e
      [] variant = 2 ->
            IF category(e) = "MissingCredential" THEN API_KEY_INSTRUCTIONS ELSE GenericErrorText
      [] variant = 3 ->
            IF category(e) = "InvalidCredential" THEN InvalidKeyText
            ELSE IF category(e) = "Billing" THEN BillingText
            ELSE GenericErrorConsoleText
      [] OTHER ->
            IF category(e) = "InvalidCredential" THEN InvalidKeyBannerText
            ELSE GenericErrorText

\* The catch block of variant 4 removes the bubble instead of writing into it.
RemovesBubble(e) == variant = 4 /\ category(e) = "InvalidCredential"

\* Mutant: the dialog is opened but the key is kept.
handleClearApiKeyKeepsKey == apiKey' = apiKey

\* handleClearApiKey: the stored key is removed, setApiKey(null).
handleClearApiKey == apiKey' = FALSE

----------------------------------------------------------------------------
(* The stream's final metadata *)

\* lastChunk.usageMetadata?.totalTokenCount ?? 0
tokenCount(chunk) == IF chunk.usage = NoUsage THEN 0 ELSE chunk.usage[1]

\* processFinalResponse(lastChunk).sources
processFinalResponseSources(chunk) == chunk.sources

----------------------------------------------------------------------------
(* State after construction *)

IdleTurn ==
    [pc |-> "idle", request |-> Unset, fullText |-> <<>>, lastChunk |-> NoChunk,
     accepted |-> <<>>, err |-> NoError]

\* The call has returned: its locals are gone, its outcome and error are remembered.
Ended(outcome, e) == [IdleTurn EXCEPT !.pc = outcome, !.err = e]

\* The locals of a call of updateKnowledgeBase that has not been made.
IdleJob == [pc |-> "idle", files |-> <<>>, failed |-> {}]

\* '\n\n---\n\n'
Separator == <<"\n", "\n", "-", "-", "-", "\n", "\n">>

\* texts.join('\n\n---\n\n') for the texts of files, all extracted.
JoinedTexts(files) == Join([i \in 1..Len(files) |-> FileText(files[i])], Separator)

\* The session starts settled.  Variants 1 and 2 have the knowledge base of
\* the files chosen so far, none or one; variants 3 and 4 have the knowledge
\* base they stored, and no file.
Init ==
    /\ variant \in Variants
    /\ apiKey \in BOOLEAN
    /\ knowledgeFiles \in (IF variant \in {1, 2} THEN { <<>>, <<"a">>, <<"b">> } ELSE { <<>> })
    /\ knowledgeBase \in (IF variant \in {1, 2} THEN { JoinedTexts(knowledgeFiles) } ELSE KBValues)
    /\ isParsing = FALSE
    /\ nextJob = 1
    /\ job = [j \in Jobs |-> IdleJob]
    /\ uiKnowledgeBase = knowledgeBase
    /\ INITIAL_MESSAGE = Message("model", GreetingText, 0)
    /\ messages = << Message("model", GreetingText, 0) >>
    /\ isLoading = FALSE
    /\ uiLoading = FALSE
    /\ error = (IF variant = 2 /\ ~apiKey THEN API_KEY_INSTRUCTIONS ELSE NoError)
    /\ totalTokensUsed = 0
    /\ stopStreamingRef = FALSE
    /\ nextTurn = 1
    /\ turn = [t \in Turns |-> IdleTurn]
    /\ generation = Unset
    /\ ranking = Unset
    /\ chunking = Unset

----------------------------------------------------------------------------
(* ChatInput and handleSendMessage up to its first await *)

\* The disabled prop App passes to ChatInput.
disabled ==
    CASE variant = 1 -> FALSE
      [] variant = 2 -> ~apiKey
      [] variant = 3 -> uiLoading
      [] OTHER -> ~apiKey \/ uiLoading

\* The early return of variant 3 when process.env.API_KEY is missing.
SendConfigError(q, t) ==
    /\ error' = ConfigErrorText
    /\ messages' = messages \o << Message("user", q, t), Message("model", ConfigErrorText, t) >>
    /\ turn' = [turn EXCEPT ![t].pc = "refused"]
    /\ UNCHANGED <<isLoading, uiLoading, stopStreamingRef>>

\* The early return on an empty knowledge base.
SendRefusal(q, t) ==
    /\ messages' = messages \o << Message("user", q, t), Message("model", RefusalText, t) >>
    /\ turn' = [turn EXCEPT ![t].pc = "refused"]
    /\ UNCHANGED <<isLoading, uiLoading, stopStreamingRef, error>>

\* Mutant: the knowledge base is not passed on.
runChatStreamArgumentsNoCorpus(q) == [prompt |-> q, knowledgeBase |-> <<>>]

\* runChatStream(newMessage, settings, knowledgeBase): the query and the
\* knowledge base of the closure (the settings are not modelled).
runChatStreamArguments(q) == [prompt |-> q, knowledgeBase |-> uiKnowledgeBase]

\* Mutant: the send leaves the stop flag as it finds it.
SendRequestKeepsStop(q, t) ==
    /\ messages' = messages \o << Message("user", q, t), Message("model", <<>>, t) >>
    /\ isLoading' = TRUE
    /\ uiLoading' = TRUE
    /\ error' = NoError
    /\ stopStreamingRef' = stopStreamingRef
    /\ turn' = [turn EXCEPT ![t].pc = "requesting",
                            ![t].request = Some(runChatStreamArguments(q))]

\* The turn proper: the bubbles are appended and runChatStream is called.
SendRequest(q, t) ==
    /\ messages' = messages \o << Message("user", q, t), Message("model", <<>>, t) >>
    /\ isLoading' = TRUE
    /\ uiLoading' = TRUE
    /\ error' = NoError
    /\ stopStreamingRef' = FALSE
    /\ turn' = [turn EXCEPT ![t].pc = "requesting",
                            ![t].request = Some(runChatStreamArguments(q))]

\* Whether handleSendMessage refuses locally for want of a knowledge base.
RefusesEmptyKnowledgeBase == variant # 1 /\ Trim(uiKnowledgeBase) = <<>>

handleSendMessage(q, t) ==
    /\ Trim(q) # <<>>
    /\ IF variant = 3 /\ ~apiKey THEN SendConfigError(q, t)
       ELSE IF RefusesEmptyKnowledgeBase THEN SendRefusal(q, t)
       ELSE SendRequest(q, t)
    /\ nextTurn' = t + 1
    /\ UNCHANGED fileVars
    /\ UNCHANGED <<pipelineVars, variant, apiKey, knowledgeBase, uiKnowledgeBase, INITIAL_MESSAGE,
                   totalTokensUsed>>

\* Mutant: the form submits while a turn is running.
CanSubmitWhileLoading(q) == Trim(q) # <<>> /\ ~(variant \in {2, 4} /\ ~apiKey)

\* ChatInput's guard on the form's submit event.
CanSubmit(q) == Trim(q) # <<>> /\ ~uiLoading /\ ~disabled

handleSubmit(q) ==
    /\ nextTurn <= MaxTurns
    /\ CanSubmit(q)
    /\ handleSendMessage(q, nextTurn)

----------------------------------------------------------------------------
(* handleSendMessage after its awaits *)

\* Mutant: the finally block resets the stop flag only.
FinallyKeepsLoading ==
    /\ isLoading' = isLoading
    /\ stopStreamingRef' = FALSE

\* finally { setIsLoading(false); stopStreamingRef.current = false; }
Finally ==
    /\ isLoading' = FALSE
    /\ stopStreamingRef' = FALSE

\* Mutant: the metadata is committed without looking at the stop flag.
CommitsMetadataIgnoringStop(t) == turn[t].lastChunk # NoChunk

\* if (!stopStreamingRef.current && lastChunk)
CommitsMetadata(t) == ~stopStreamingRef /\ turn[t].lastChunk # NoChunk

\* Mutant: setTotalTokensUsed(tokenCount)
RecordUsageOverwrite(prev, n) == n

\* setTotalTokensUsed(prev => prev + tokenCount)
RecordUsage(prev, n) == prev + n

\* The statements after the for-await loop, and the finally block.
AfterLoop(t) ==
    /\ IF CommitsMetadata(t)
       THEN /\ totalTokensUsed' = RecordUsage(totalTokensUsed, tokenCount(turn[t].lastChunk[1]))
            /\ IF variant = 1
               THEN LET s == Some(processFinalResponseSources(turn[t].lastChunk[1]))
                    IN  /\ messages' = WithLast(messages, "sources", s)
                        /\ INITIAL_MESSAGE' = SharedWrite(messages, "sources", s)
               ELSE UNCHANGED <<messages, INITIAL_MESSAGE>>
       ELSE UNCHANGED <<totalTokensUsed, messages, INITIAL_MESSAGE>>
    /\ Finally
    /\ turn' = [turn EXCEPT ![t] = Ended(IF stopStreamingRef THEN "cancelled" ELSE "completed", NoError)]
    /\ UNCHANGED fileVars
    /\ UNCHANGED <<pipelineVars, variant, apiKey, knowledgeBase, uiKnowledgeBase, uiLoading, error, nextTurn>>

\* Mutant: the catch block reports the error in the banner only.
CatchKeepsText(t, e) ==
    /\ error' = displayErrorMessage(e)
    /\ UNCHANGED <<apiKey, messages, INITIAL_MESSAGE>>
    /\ Finally
    /\ turn' = [turn EXCEPT ![t] = Ended("failed", Some(e))]
    /\ UNCHANGED fileVars
    /\ UNCHANGED <<pipelineVars, variant, knowledgeBase, uiKnowledgeBase, uiLoading, totalTokensUsed, nextTurn>>

\* The catch block and the finally block, for the raw error text e.
Catch(t, e) ==
    /\ error' = displayErrorMessage(e)
    /\ IF RemovesBubble(e)
       THEN /\ handleClearApiKey
            /\ messages' = SubSeq(messages, 1, Len(messages) - 1)
            /\ UNCHANGED INITIAL_MESSAGE
       ELSE /\ IF Len(messages) > 0 /\ Last(messages).role = "model"
               THEN /\ messages' = WithLast(messages, "text", displayErrorMessage(e))
                    /\ INITIAL_MESSAGE' = SharedWrite(messages, "text", displayErrorMessage(e))
               ELSE UNCHANGED <<messages, INITIAL_MESSAGE>>
            /\ UNCHANGED apiKey
    /\ Finally
    /\ turn' = [turn EXCEPT ![t] = Ended("failed", Some(e))]
    /\ UNCHANGED fileVars
    /\ UNCHANGED <<pipelineVars, variant, knowledgeBase, uiKnowledgeBase, uiLoading, totalTokensUsed, nextTurn>>

\* Mutant: the stream of a finished call is opened again.
OpenResolveAgain(t) ==
    /\ turn[t].pc \in {"requesting", "completed"}
    /\ apiKey
    /\ turn' = [turn EXCEPT ![t].pc = "streaming"]
    /\ UNCHANGED fileVars
    /\ UNCHANGED <<pipelineVars, variant, apiKey, knowledgeBase, uiKnowledgeBase, messages, INITIAL_MESSAGE, isLoading,
                   uiLoading, error, totalTokensUsed, stopStreamingRef, nextTurn>>

\* await runChatStream(...) resolves with the stream.
OpenResolve(t) ==
    /\ turn[t].pc = "requesting"
    /\ apiKey
    /\ turn' = [turn EXCEPT ![t].pc = "streaming"]
    /\ UNCHANGED fileVars
    /\ UNCHANGED <<pipelineVars, variant, apiKey, knowledgeBase, uiKnowledgeBase, messages, INITIAL_MESSAGE, isLoading,
                   uiLoading, error, totalTokensUsed, stopStreamingRef, nextTurn>>

\* await runChatStream(...) rejects: no key, or the provider's error.
OpenReject(t, e) ==
    /\ turn[t].pc = "requesting"
    /\ e \in (IF apiKey THEN ClassifiedErrors ELSE MissingKeyErrors)
    /\ Catch(t, e)

\* Mutant: fullText = chunkText + fullText
PrependText(fullText, chunkText) == chunkText \o fullText

\* Mutant: fullText = chunkText
ReplaceText(fullText, chunkText) == chunkText

\* fullText += chunkText
AppendText(fullText, chunkText) == fullText \o chunkText

\* Mutant: only the first chunk is captured.
CaptureFirst(lastChunk, chunk) == IF lastChunk = NoChunk THEN Some(chunk) ELSE lastChunk

\* lastChunk = chunk
CaptureLatest(lastChunk, chunk) == Some(chunk)

\* One iteration of the for-await loop, on the next chunk of the stream,
\* which carries the metadata m.
ChunkArrive(t, m) ==
    /\ turn[t].pc = "streaming"
    /\ IF stopStreamingRef
       THEN /\ turn' = [turn EXCEPT ![t].pc = "breaking"]
            /\ UNCHANGED <<messages, INITIAL_MESSAGE>>
       ELSE LET c == Chunk(Len(turn[t].accepted) + 1, m)
                text == AppendText(turn[t].fullText, c.text)
            IN  /\ Len(turn[t].accepted) < MaxChunks
                /\ turn' = [turn EXCEPT ![t].lastChunk = CaptureLatest(@, c),
                                        ![t].fullText = text,
                                        ![t].accepted = Append(@, c.text)]
                /\ messages' = WithLast(messages, "text", text)
                /\ INITIAL_MESSAGE' = SharedWrite(messages, "text", text)
    /\ UNCHANGED fileVars
    /\ UNCHANGED <<pipelineVars, variant, apiKey, knowledgeBase, uiKnowledgeBase, isLoading, uiLoading, error,
                   totalTokensUsed, stopStreamingRef, nextTurn>>

\* The stream ends: the loop is left normally.
StreamEnd(t) ==
    /\ turn[t].pc = "streaming"
    /\ AfterLoop(t)

\* The stream throws while the loop awaits the next chunk.
StreamThrow(t, e) ==
    /\ turn[t].pc = "streaming"
    /\ e \in ProviderErrors
    /\ Catch(t, e)

\* The await of the iterator's return() that the break makes resumes.
BreakDone(t) ==
    /\ turn[t].pc = "breaking"
    /\ AfterLoop(t)

----------------------------------------------------------------------------
(* The other handlers *)

handleStopGeneration ==
    /\ uiLoading
    /\ stopStreamingRef' = TRUE
    /\ UNCHANGED fileVars
    /\ UNCHANGED <<pipelineVars, variant, apiKey, knowledgeBase, uiKnowledgeBase, messages, INITIAL_MESSAGE, isLoading,
                   uiLoading, error, totalTokensUsed, nextTurn, turn>>

performClearChat ==
    /\ messages' = << INITIAL_MESSAGE >>
    /\ totalTokensUsed' = 0
    /\ error' = NoError
    /\ UNCHANGED fileVars
    /\ UNCHANGED <<pipelineVars, variant, apiKey, knowledgeBase, uiKnowledgeBase, INITIAL_MESSAGE, isLoading, uiLoading,
                   stopStreamingRef, nextTurn, turn>>

\* React renders the state set outside an event handler.
Render ==
    /\ (uiLoading # isLoading \/ uiKnowledgeBase # knowledgeBase)
    /\ uiLoading' = isLoading
    /\ uiKnowledgeBase' = knowledgeBase
    /\ UNCHANGED fileVars
    /\ UNCHANGED <<pipelineVars, variant, apiKey, knowledgeBase, messages, INITIAL_MESSAGE, isLoading,
                   error, totalTokensUsed, stopStreamingRef, nextTurn, turn>>

\* Variant 4: a key is entered in the dialog.
handleSaveApiKey ==
    /\ variant = 4
    /\ ~apiKey
    /\ apiKey' = TRUE
    /\ error' = NoError
    /\ UNCHANGED fileVars
    /\ UNCHANGED <<pipelineVars, variant, knowledgeBase, uiKnowledgeBase, messages, INITIAL_MESSAGE, isLoading, uiLoading,
                   totalTokensUsed, stopStreamingRef, nextTurn, turn>>

\* Variants 3 and 4: the knowledge base changes in another tab.
handleStorageChange(newValue) ==
    /\ variant \in {3, 4}
    /\ newValue # knowledgeBase
    /\ knowledgeBase' = newValue
    /\ UNCHANGED fileVars
    /\ UNCHANGED <<pipelineVars, variant, apiKey, uiKnowledgeBase, messages, INITIAL_MESSAGE, isLoading,
                   uiLoading, error,
                   totalTokensUsed, stopStreamingRef, nextTurn, turn>>

----------------------------------------------------------------------------
(* The knowledge files and their extraction *)

\* setKnowledgeBase(''), in a discrete event: React renders before it returns.
ClearKnowledgeBase ==
    /\ knowledgeBase' = <<>>
    /\ uiKnowledgeBase' = <<>>

KeepKnowledgeBase ==
    /\ knowledgeBase' = knowledgeBase
    /\ uiKnowledgeBase' = knowledgeBase

\* updateKnowledgeBase(files) up to its await, called by the effect on knowledgeFiles.
updateKnowledgeBase(files, cleared) ==
    IF files = <<>>
    THEN /\ IF variant \in {1, 2} \/ cleared THEN ClearKnowledgeBase ELSE KeepKnowledgeBase
         /\ UNCHANGED <<isParsing, error, nextJob, job>>
    ELSE /\ nextJob <= MaxJobs
         /\ isParsing' = TRUE
         /\ error' = NoError
         /\ job' = [job EXCEPT ![nextJob] = [pc |-> "extracting", files |-> files, failed |-> {}]]
         /\ nextJob' = nextJob + 1
         /\ KeepKnowledgeBase

\* The files of the selection whose name is not in the list are appended.
handleFileChange(selection) ==
    /\ ~isParsing
    /\ LET existingFileNames == { knowledgeFiles[i] : i \in 1..Len(knowledgeFiles) }
           uniqueNewFiles == SelectSeq(selection, LAMBDA f : f \notin existingFileNames)
       IN  /\ knowledgeFiles' = knowledgeFiles \o uniqueNewFiles
           /\ updateKnowledgeBase(knowledgeFiles', FALSE)
    /\ uiLoading' = isLoading
    /\ UNCHANGED <<pipelineVars, variant, apiKey, messages, INITIAL_MESSAGE, isLoading, totalTokensUsed,
                   stopStreamingRef, nextTurn, turn>>

\* The file is taken off the list; variants 3 and 4 clear the knowledge base
\* themselves when it was the last one.
handleRemoveFile(fileName) ==
    /\ \E i \in 1..Len(knowledgeFiles) : knowledgeFiles[i] = fileName
    /\ knowledgeFiles' = SelectSeq(knowledgeFiles, LAMBDA f : f # fileName)
    /\ updateKnowledgeBase(knowledgeFiles', variant \in {3, 4} /\ knowledgeFiles' = <<>>)
    /\ uiLoading' = isLoading
    /\ UNCHANGED <<pipelineVars, variant, apiKey, messages, INITIAL_MESSAGE, isLoading, totalTokensUsed,
                   stopStreamingRef, nextTurn, turn>>

\* finally { setIsParsing(false) }
FinallyParsed == isParsing' = FALSE

\* await Promise.all(files.map(extractTextFromPDF)) resolves: every file was extracted.
ExtractResolve(j) ==
    /\ job[j].pc = "extracting"
    /\ knowledgeBase' = JoinedTexts(job[j].files)
    /\ FinallyParsed
    /\ job' = [job EXCEPT ![j].pc = "done"]
    /\ UNCHANGED <<pipelineVars, variant, apiKey, uiKnowledgeBase, messages, INITIAL_MESSAGE, isLoading, uiLoading,
                   error, totalTokensUsed, stopStreamingRef, nextTurn, turn, knowledgeFiles, nextJob>>

\* It rejects: the extraction of the files in failed rejected, the first of
\* them with the error that message explains.
ExtractReject(j, failed, message) ==
    /\ job[j].pc = "extracting"
    /\ failed # {}
    /\ failed \subseteq { job[j].files[i] : i \in 1..Len(job[j].files) }
    /\ message \in ParseErrors
    /\ error' = message
    /\ FinallyParsed
    /\ job' = [job EXCEPT ![j].pc = "failed", ![j].failed = failed]
    /\ UNCHANGED <<pipelineVars, variant, apiKey, knowledgeBase, uiKnowledgeBase, messages, INITIAL_MESSAGE,
                   isLoading, uiLoading, totalTokensUsed, stopStreamingRef, nextTurn, turn,
                   knowledgeFiles, nextJob>>

----------------------------------------------------------------------------
(* TokenEstimator of the settings panel *)

TOTAL_TOKEN_LIMIT == 990000

CHARS_PER_TOKEN == 4

INITIAL_AVG_Q_AND_A_TOKENS_WITH_KB == 7500

INITIAL_AVG_Q_AND_A_TOKENS_WEB_SEARCH == 3000

MaxContextTokens == 8000

avgQandATokens == 1500

Max(a, b) == IF a >= b THEN a ELSE b

Min(a, b) == IF a <= b THEN a ELSE b

\* Math.round(a / b) for a >= 0, b > 0: halves round up.
Round(a, b) == (2 * a + b) \div (2 * b)

\* The props App computes for the panel.
knowledgeBaseTokens == Round(Len(knowledgeBase), CHARS_PER_TOKEN)

userMessagesCount == Cardinality({ i \in 1..Len(messages) : messages[i].role = "user" })

\* First TokenEstimator: the static estimate adds a fixed question-and-answer cost.
estimatedCostPerTurnA(kbTokens, sessionTokensUsed, userMessages) ==
    IF userMessages > 0 /\ sessionTokensUsed > 0
    THEN Round(sessionTokensUsed, userMessages)
    ELSE kbTokens + (IF kbTokens > 0 THEN INITIAL_AVG_Q_AND_A_TOKENS_WITH_KB
                                     ELSE INITIAL_AVG_Q_AND_A_TOKENS_WEB_SEARCH)

\* Second TokenEstimator: the static estimate caps the context at a few chunks.
estimatedCostPerTurnB(kbTokens, sessionTokensUsed, userMessages) ==
    IF userMessages > 0 /\ sessionTokensUsed > 0
    THEN Round(sessionTokensUsed, userMessages)
    ELSE Min(kbTokens, MaxContextTokens) + avgQandATokens

\* Mutant: totalTokenLimit - sessionTokensUsed
remainingTokensUnclamped(totalTokenLimit, sessionTokensUsed) ==
    totalTokenLimit - sessionTokensUsed

\* Math.max(0, totalTokenLimit - sessionTokensUsed)
remainingTokens(totalTokenLimit, sessionTokensUsed) ==
    Max(0, totalTokenLimit - sessionTokensUsed)

isOverLimit(totalTokenLimit, sessionTokensUsed) == sessionTokensUsed >= totalTokenLimit

estimatedRemainingTurns(totalTokenLimit, sessionTokensUsed, estimatedCostPerTurn) ==
    IF ~isOverLimit(totalTokenLimit, sessionTokensUsed) /\ estimatedCostPerTurn > 0
    THEN remainingTokens(totalTokenLimit, sessionTokensUsed) \div estimatedCostPerTurn
    ELSE 0

----------------------------------------------------------------------------
(* geminiService: the request runChatStream passes to generateContentStream *)

\* runChatStream exists in three snapshots:
\*   service 1  src/services/geminiService.ts 21-59 (and src/unnamed/part_004)
\*   service 2  src/services/geminiService.ts 90-128
\*   service 3  src/services/geminiService.ts 158-195
Services == 1..3

\* The settings of a call; the temperature in tenths.
SettingsValues ==
    [ model : { "gemini-2.5-flash", "gemini-2.5-pro" },
      temperature : { 0, 7, 10 },
      systemInstruction : { <<>>, <<"S">> } ]

\* The third argument of runChatStream: the knowledge base, or the context.
Contexts == KBValues

\* The fixed parts of the template literals (the accent of "piu'" is written
\* as an apostrophe).
ContentsHead ==
    << "Utilizzando ESCLUSIVAMENTE il seguente contesto, rispondi alla domanda.\n\nCONTESTO:\n---\n" >>

ContentsMiddle == << "\n---\n\nDOMANDA: " >>

KnowledgeBaseBegin == << "\n\n--- INIZIO BASE DI CONOSCENZA ---\n" >>

KnowledgeBaseEnd == << "\n--- FINE BASE DI CONOSCENZA ---" >>

ContextBegin ==
    << "\n\nUsa le seguenti informazioni per rispondere alla domanda dell'utente. Queste informazioni sono i frammenti piu' rilevanti estratti da una base di conoscenza piu' ampia:\n\n--- INIZIO CONTESTO RILEVANTE ---\n" >>

ContextEnd == << "\n--- FINE CONTESTO RILEVANTE ---" >>

\* Service 1: the question and the knowledge base go into one text.
contents(prompt, kb) == ContentsHead \o kb \o ContentsMiddle \o prompt

\* Service 2: the knowledge base block is appended whatever the knowledge base.
fullSystemInstruction(settings, kb) ==
    settings.systemInstruction \o KnowledgeBaseBegin \o kb \o KnowledgeBaseEnd

instructionAlwaysWithContext(settings, context) ==
    settings.systemInstruction \o ContextBegin \o context \o ContextEnd

\* Service 3: context ? `...` : settings.systemInstruction; the empty string
\* is the only falsy string.
instructionWithContext(settings, context) ==
    IF context # <<>>
    THEN settings.systemInstruction \o ContextBegin \o context \o ContextEnd
    ELSE settings.systemInstruction

\* The argument of ai.models.generateContentStream.
generateContentStreamRequest(service, prompt, settings, kb) ==
    [ model |-> settings.model,
      contents |-> (IF service = 1 THEN contents(prompt, kb) ELSE prompt),
      systemInstruction |->
          CASE service = 1 -> settings.systemInstruction
            [] service = 2 -> fullSystemInstruction(settings, kb)
            [] service = 3 -> instructionWithContext(settings, kb),
      temperature |-> settings.temperature ]

\* A call of runChatStream, up to the request it sends; without a credential
\* it throws before it builds one.  The service keeps no state, so a behaviour
\* follows one call.
runChatStream(service, prompt, settings, kb) ==
    /\ apiKey
    /\ generation = Unset
    /\ generation' = Some([ service |-> service, prompt |-> prompt, settings |-> settings,
                            context |-> kb,
                            request |-> generateContentStreamRequest(service, prompt, settings, kb) ])
    /\ UNCHANGED <<ranking, chunking>>
    /\ UNCHANGED <<variant, apiKey, knowledgeBase, uiKnowledgeBase, messages, INITIAL_MESSAGE,
                   isLoading, uiLoading, error, totalTokensUsed, stopStreamingRef, nextTurn, turn>>
    /\ UNCHANGED fileVars

----------------------------------------------------------------------------
(* Relevance Ranker: rank(query, chunks, topK), as the specification gives it *)

\* The chunks of one call of rank, at most.
MaxRankChunks == 3

Alphanumeric ==
    { UpperCase[i] : i \in 1..26 } \cup { LowerCase[i] : i \in 1..26 }
        \cup { "0", "1", "2", "3", "4", "5", "6", "7", "8", "9" }

\* The set of lower-cased alphanumeric runs of a text.
tokenize(text) ==
    { ToLower(SubSeq(text, i, j)) :
        <<i, j>> \in { r \in (1..Len(text)) \X (1..Len(text)) :
                         /\ r[1] <= r[2]
                         /\ \A k \in r[1]..r[2] : text[k] \in Alphanumeric
                         /\ r[1] = 1 \/ text[r[1] - 1] \notin Alphanumeric
                         /\ r[2] = Len(text) \/ text[r[2] + 1] \notin Alphanumeric } }

\* The number of query tokens that occur in the chunk, each counted once.
score(queryTokens, chunk) == Cardinality(queryTokens \cap tokenize(chunk.text))

ScoredChunk(queryTokens, chunk) == [chunk |-> chunk, score |-> score(queryTokens, chunk)]

\* Descending by score, by a stable sort: chunks of equal score keep their order.
sortByScore(scored) ==
    LET before(j, i) == \/ scored[j].score > scored[i].score
                        \/ scored[j].score = scored[i].score /\ j < i
        place(i) == 1 + Cardinality({ j \in 1..Len(scored) : before(j, i) })
    IN  [k \in 1..Len(scored) |-> scored[CHOOSE i \in 1..Len(scored) : place(i) = k]]

take(s, n) == SubSeq(s, 1, Min(n, Len(s)))

keepZeroScores(scored) == scored

dropZeroScores(scored) == SelectSeq(scored, LAMBDA sc : sc.score > 0)

keepScoreOrder(scored) == scored

\* Ascending by the original index.
sortByIndex(scored) ==
    LET place(i) == 1 + Cardinality({ j \in 1..Len(scored) :
                                        scored[j].chunk.index < scored[i].chunk.index })
    IN  [k \in 1..Len(scored) |-> scored[CHOOSE i \in 1..Len(scored) : place(i) = k]]

\* The visible separator between the chunks of the context.
ContextSeparator == << "\n\n---\n\n" >>

\* The chunks rank retains, in the order it joins them.
retained(query, chunks, topK) ==
    IF tokenize(query) = {}
    THEN <<>>
    ELSE LET scored == [i \in 1..Len(chunks) |-> ScoredChunk(tokenize(query), chunks[i])]
         IN  sortByIndex(dropZeroScores(take(sortByScore(scored), topK)))

\* A call of rank: the retained chunks and the context it returns.  rank keeps
\* no state, so a behaviour follows one call.
rank(query, chunks, topK) ==
    /\ ranking = Unset
    /\ ranking' =
          LET kept == retained(query, chunks, topK)
          IN  Some([ query |-> query, chunks |-> chunks, topK |-> topK,
                     retained |-> [i \in 1..Len(kept) |-> kept[i].chunk],
                     context |-> Join([i \in 1..Len(kept) |-> kept[i].chunk.text],
                                      ContextSeparator) ])
    /\ UNCHANGED <<generation, chunking>>
    /\ UNCHANGED <<variant, apiKey, knowledgeBase, uiKnowledgeBase, messages, INITIAL_MESSAGE,
                   isLoading, uiLoading, error, totalTokensUsed, stopStreamingRef, nextTurn, turn>>
    /\ UNCHANGED fileVars

\* The chunk texts and the queries of the calls: words in either case, a
\* repeated word, punctuation, and queries without any word.
RankTexts == { <<"a", " ", "b">>, <<"A", ".">>, <<"c">>, <<"b", " ", "b">> }

RankQueries ==
    { <<>>, <<"?", " ">>, <<"a">>, <<"B", " ", "a">>, <<"c", " ", "b", ".", "a">> }

\* The chunk lists a corpus gives: the index is the place in the list.
ChunkLists ==
    UNION { { [i \in 1..n |-> [index |-> i, text |-> texts[i]]] : texts \in [1..n -> RankTexts] } :
            n \in 0..MaxRankChunks }

----------------------------------------------------------------------------
(* Chunker: chunk(text, maxChunkChars), as the specification gives it *)

\* The characters of a text of one call of chunk, at most.
MaxTextLen == 5

\* A letter, an end-of-sentence mark, a blank and a line break.
TextAlphabet == { "a", ".", " ", "\n" }

Texts == UNION { [1..n -> TextAlphabet] : n \in 0..MaxTextLen }

\* The values of maxChunkChars.
Limits == 1..4

EndOfSentence == { ".", "!", "?" }

\* The first position of a blank-line boundary of the text: a line break
\* followed, after blanks only, by another line break; 0 if none.
blankLineAt(text) ==
    LET starts == { i \in 1..Len(text) :
                      /\ text[i] = "\n"
                      /\ \E j \in (i + 1)..Len(text) :
                            /\ text[j] = "\n"
                            /\ \A k \in (i + 1)..(j - 1) : IsSpace(text[k]) }
    IN  IF starts = {} THEN 0 ELSE CHOOSE i \in starts : \A j \in starts : i <= j

\* The paragraphs between the blank-line boundaries, trimmed, without the
\* empty ones.
RECURSIVE paragraphs(_)
paragraphs(text) ==
    LET trimmed == Trim(text)
        i == blankLineAt(trimmed)
    IN  IF trimmed = <<>> THEN <<>>
        ELSE IF i = 0 THEN << trimmed >>
        ELSE << TrimEnd(SubSeq(trimmed, 1, i - 1)) >>
                 \o paragraphs(SubSeq(trimmed, i, Len(trimmed)))

\* The first position of an end-of-sentence mark that a blank follows; 0 if none.
sentenceEndAt(text) ==
    LET ends == { i \in 1..(Len(text) - 1) : text[i] \in EndOfSentence /\ IsSpace(text[i + 1]) }
    IN  IF ends = {} THEN 0 ELSE CHOOSE i \in ends : \A j \in ends : i <= j

\* The sentences of a trimmed paragraph.
RECURSIVE sentences(_)
sentences(text) ==
    LET i == sentenceEndAt(text)
    IN  IF text = <<>> THEN <<>>
        ELSE IF i = 0 THEN << text >>
        ELSE << SubSeq(text, 1, i) >> \o sentences(TrimStart(SubSeq(text, i + 1, Len(text))))

\* Greedy packing: a unit joins the buffer unless the buffer would exceed the
\* limit, in which case the buffer is closed and the unit starts the next one.
RECURSIVE pack(_, _, _, _)
pack(units, buffer, separator, maxChunkChars) ==
    IF units = <<>> THEN (IF buffer = <<>> THEN <<>> ELSE << buffer >>)
    ELSE IF buffer = <<>> THEN pack(Tail(units), Head(units), separator, maxChunkChars)
    ELSE IF Len(buffer \o separator \o Head(units)) > maxChunkChars
         THEN << buffer >> \o pack(Tail(units), Head(units), separator, maxChunkChars)
         ELSE pack(Tail(units), buffer \o separator \o Head(units), separator, maxChunkChars)

keepOversized(text, maxChunkChars) == << text >>

\* A chunk over the limit is split into sentences, packed with single spaces.
splitOversized(text, maxChunkChars) ==
    IF Len(text) > maxChunkChars
    THEN pack(sentences(text), <<>>, << " " >>, maxChunkChars)
    ELSE << text >>

\* The chunks of a text, numbered from 1 in the order of emission.
chunksOf(text, maxChunkChars) ==
    LET packed == pack(paragraphs(text), <<>>, << "\n", "\n" >>, maxChunkChars)
        texts == Concat([i \in 1..Len(packed) |-> splitOversized(packed[i], maxChunkChars)])
    IN  [i \in 1..Len(texts) |-> [index |-> i, text |-> texts[i]]]

\* A call of chunk.  chunk keeps no state, so a behaviour follows one call.
chunk(text, maxChunkChars) ==
    /\ chunking = Unset
    /\ chunking' = Some([ text |-> text, maxChunkChars |-> maxChunkChars,
                          chunks |-> chunksOf(text, maxChunkChars) ])
    /\ UNCHANGED <<generation, ranking>>
    /\ UNCHANGED <<variant, apiKey, knowledgeBase, uiKnowledgeBase, messages, INITIAL_MESSAGE,
                   isLoading, uiLoading, error, totalTokensUsed, stopStreamingRef, nextTurn, turn>>
    /\ UNCHANGED fileVars

----------------------------------------------------------------------------
(* Specification *)

Next ==
    \/ \E q \in Queries : handleSubmit(q)
    \/ \E t \in Turns : OpenResolve(t)
    \/ \E t \in Turns, e \in ProviderErrors \cup MissingKeyErrors : OpenReject(t, e)
    \/ \E t \in Turns, m \in Metadata : ChunkArrive(t, m)
    \/ \E t \in Turns : StreamEnd(t)
    \/ \E t \in Turns, e \in ProviderErrors : StreamThrow(t, e)
    \/ \E t \in Turns : BreakDone(t)
    \/ handleStopGeneration
    \/ performClearChat
    \/ Render
    \/ handleSaveApiKey
    \/ \E v \in StorageValues : handleStorageChange(v)

Spec == Init /\ [][Next]_vars

\* The steps the provider's promise and stream take: each await of
\* handleSendMessage resumes once the provider resolves, rejects, yields or ends.
ProviderStep ==
    \/ \E t \in Turns : OpenResolve(t)
    \/ \E t \in Turns, e \in ProviderErrors \cup MissingKeyErrors : OpenReject(t, e)
    \/ \E t \in Turns, m \in Metadata : ChunkArrive(t, m)
    \/ \E t \in Turns : StreamEnd(t)
    \/ \E t \in Turns, e \in ProviderErrors : StreamThrow(t, e)
    \/ \E t \in Turns : BreakDone(t)

\* The steps of the user and of React.  The storage event is left out of the
\* liveness specification: it writes knowledgeBase only, which no step of a
\* call of handleSendMessage reads after the call was made.
UserStep ==
    \/ \E q \in Queries : handleSubmit(q)
    \/ handleStopGeneration
    \/ performClearChat
    \/ Render
    \/ handleSaveApiKey

LiveNext == ProviderStep \/ UserStep

LiveSpec == Init /\ [][LiveNext]_vars /\ WF_vars(ProviderStep)

\* The turns that fail at the first await, on every error text of the
\* classification.
ClassifyNext ==
    \/ \E q \in Queries : handleSubmit(q)
    \/ \E t \in Turns, e \in ClassifiedErrors \cup MissingKeyErrors : OpenReject(t, e)
    \/ performClearChat
    \/ Render
    \/ handleSaveApiKey

ClassifySpec == Init /\ [][ClassifyNext]_vars

\* The knowledge files and their extraction.
FileNext ==
    \/ \E selection \in Selections : handleFileChange(selection)
    \/ \E fileName \in Files : handleRemoveFile(fileName)
    \/ \E j \in Jobs : ExtractResolve(j)
    \/ \E j \in Jobs, failed \in SUBSET Files, message \in ParseErrors : ExtractReject(j, failed, message)
    \/ Render

FileSpec == Init /\ [][FileNext]_vars

\* The services are called from one session: they read nothing of it but the
\* credential.
ServiceInit == Init /\ variant = 1 /\ apiKey /\ knowledgeFiles = <<>>

\* The requests of the generation service, on every service snapshot,
\* question, settings and context.
RequestNext ==
    \E service \in Services, prompt \in Queries, settings \in SettingsValues, kb \in Contexts :
        runChatStream(service, prompt, settings, kb)

RequestSpec == ServiceInit /\ [][RequestNext]_vars

\* The calls of rank, on every query, chunk list and topK of the bounds.
RankNext ==
    \E query \in RankQueries, chunks \in ChunkLists, topK \in 1..MaxRankChunks :
        rank(query, chunks, topK)

RankSpec == ServiceInit /\ [][RankNext]_vars

\* The calls of chunk, on every text and limit of the bounds.
ChunkNext ==
    \E text \in Texts, maxChunkChars \in Limits : chunk(text, maxChunkChars)

ChunkSpec == ServiceInit /\ [][ChunkNext]_vars

----------------------------------------------------------------------------
(* Vocabulary of the properties *)

Terminal == {"completed", "cancelled", "failed"}

InFlight(t) == turn[t].pc \in {"requesting", "streaming", "breaking"}

\* The step in which the call t reaches its catch block.
Fails(t) == InFlight(t) /\ turn'[t].pc = "failed"

\* The positions of the model message that the call t appended.
ModelMessagesOf(ms, t) == { i \in 1..Len(ms) : ms[i].turn = t /\ ms[i].role = "model" }

HasMsg(ms, t) == ModelMessagesOf(ms, t) # {}

Msg(ms, t) == ms[CHOOSE i \in ModelMessagesOf(ms, t) : TRUE]

IsPrefix(a, b) == Len(a) <= Len(b) /\ SubSeq(b, 1, Len(a)) = a

----------------------------------------------------------------------------
(* C1 *)

\* The stop flag has been seen set by the loop of call t, or is seen set in this step.
StopObserved(t) ==
    \/ turn[t].pc = "breaking"
    \/ /\ turn[t].pc = "streaming"
       /\ stopStreamingRef
       /\ turn'[t].pc \in {"breaking", "cancelled"}

\* C1: once the stop flag is observed set at a chunk boundary (a chunk arrives
\* while it is set, or the stream ends while it is set), no step changes the
\* text of the turn's model message, its sources stay unset, the turn's own
\* steps leave totalTokensUsed alone, and the turn ends cancelled.
C1_StopCommitsNothing ==
    [][\A t \in Turns :
        /\ StopObserved(t) =>
            /\ turn'[t].pc \in {"breaking", "cancelled"}
            /\ (turn'[t].pc # turn[t].pc) => totalTokensUsed' = totalTokensUsed
            /\ (HasMsg(messages, t) /\ HasMsg(messages', t)) =>
                  /\ Msg(messages', t).text = Msg(messages, t).text
                  /\ Msg(messages', t).sources = Unset
        /\ (turn[t].pc = "cancelled" /\ HasMsg(messages, t)) =>
              Msg(messages, t).sources = Unset
      ]_vars

\* A turn of variant 1 was cancelled after its first chunk had been appended:
\* the text is kept and nothing else of the turn was committed.
C1_Witness ==
    \E t \in Turns :
        /\ variant = 1
        /\ turn[t].pc = "cancelled"
        /\ HasMsg(messages, t)
        /\ Msg(messages, t).text = T5
        /\ Msg(messages, t).sources = Unset
        /\ totalTokensUsed = 0

----------------------------------------------------------------------------
(* C2 *)

\* C2: every step that ends a turn (completed, cancelled, failed while
\* opening or in mid-stream) leaves isLoading and the stop flag false, and,
\* the provider's promise and stream being fair, isLoading true leads to
\* isLoading false.
C2_BusyFlagCannotWedge ==
    /\ [][\A t \in Turns :
            (InFlight(t) /\ turn'[t].pc \in Terminal) =>
                (~isLoading' /\ ~stopStreamingRef')]_vars
    /\ (isLoading ~> ~isLoading)

\* One turn has failed, another one was cancelled, and the flags are down.
C2_Witness ==
    /\ ~isLoading
    /\ ~stopStreamingRef
    /\ \E t1, t2 \in Turns : turn[t1].pc = "failed" /\ turn[t2].pc = "cancelled"

----------------------------------------------------------------------------
(* C3 *)

\* C3 (as claimed): when a stream ends without cancellation after at least
\* one chunk, totalTokensUsed grows by the last chunk's token count (0 without
\* usage metadata) and the turn's model message gets that chunk's sources.
C3_FinalMetadataFromLastChunk ==
    [][\A t \in Turns :
        (turn[t].pc = "streaming" /\ turn'[t].pc = "completed" /\ turn[t].lastChunk # NoChunk) =>
            /\ totalTokensUsed' = totalTokensUsed + tokenCount(turn[t].lastChunk[1])
            /\ HasMsg(messages', t) =>
                  Msg(messages', t).sources = Some(turn[t].lastChunk[1].sources)
      ]_vars

----------------------------------------------------------------------------
(* C4 *)

\* C4: at most one call of handleSendMessage is between its runChatStream
\* call and its finally block, and such a call exists only while isLoading.
C4_AtMostOneTurnInFlight ==
    /\ Cardinality({ t \in Turns : InFlight(t) }) <= 1
    /\ (\E t \in Turns : InFlight(t)) => isLoading

\* A second turn is in flight after a first one has ended, with a stop pending.
C4_Witness ==
    \E t1, t2 \in Turns :
        /\ turn[t1].pc \in Terminal
        /\ turn[t2].pc = "streaming"
        /\ stopStreamingRef

----------------------------------------------------------------------------
(* C5 *)

\* C5 (as claimed): a non-blank query sent while the knowledge base is empty
\* or blank issues no generation call: the call refuses locally, isLoading
\* stays false, totalTokensUsed is unchanged and, a key being there, the user
\* message and the fixed refusal are appended.
C5_EmptyCorpusNeverGenerates ==
    [][(nextTurn' # nextTurn /\ Trim(knowledgeBase) = <<>>) =>
        /\ turn'[nextTurn].pc = "refused"
        /\ ~isLoading'
        /\ totalTokensUsed' = totalTokensUsed
        /\ apiKey => /\ Len(messages') = Len(messages) + 2
                     /\ messages'[Len(messages') - 1].role = "user"
                     /\ Last(messages').text = RefusalText
      ]_vars

----------------------------------------------------------------------------
(* C6 *)

\* C6: when a turn ends cancelled, the text of its model message is the
\* concatenation, in arrival order, of the chunk texts the loop took before
\* it saw the stop flag, and it stays that text afterwards.
C6_CancelledTextIsWhatArrived ==
    [][\A t \in Turns :
        /\ (InFlight(t) /\ turn'[t].pc = "cancelled" /\ HasMsg(messages', t)) =>
              Msg(messages', t).text = Concat(turn[t].accepted)
        /\ (turn[t].pc = "breaking" /\ HasMsg(messages, t)) =>
              Msg(messages, t).text = Concat(turn[t].accepted)
        /\ (turn[t].pc = "cancelled" /\ HasMsg(messages, t) /\ HasMsg(messages', t)) =>
              Msg(messages', t).text = Msg(messages, t).text
      ]_vars

\* A turn was cancelled after chunks of 5 and 7 characters: its message holds
\* those 12 characters, no sources, and no tokens were recorded.
C6_Witness ==
    \E t \in Turns :
        /\ turn[t].pc = "cancelled"
        /\ HasMsg(messages, t)
        /\ Msg(messages, t).text = T5 \o T7
        /\ Len(Msg(messages, t).text) = 12
        /\ Msg(messages, t).sources = Unset
        /\ totalTokensUsed = 0

----------------------------------------------------------------------------
(* C7 *)

\* C7 (as claimed): when a turn fails, while opening the stream or in the
\* middle of it, the turn's model message is overwritten with the explanation
\* of the failure: it is still there and its text is that explanation.
C7_FailureOverwritesMessage ==
    [][\A t \in Turns :
        (InFlight(t) /\ turn'[t].pc = "failed" /\ HasMsg(messages, t)) =>
            /\ HasMsg(messages', t)
            /\ Msg(messages', t).text = displayErrorMessage(turn'[t].err[1])
      ]_vars

\* C7 (amended): when a turn fails, the explanation of the failure becomes the
\* error banner; the turn's model message, if it is in the list after the
\* step, has that explanation as its text, whatever had been streamed into it,
\* and is never blank, and keeps it afterwards; the message leaves the list in
\* that step only for an invalid-key failure of variant 4, which clears the key.
C7_FailureExplained ==
    [][\A t \in Turns :
        /\ (InFlight(t) /\ turn'[t].pc = "failed") =>
            LET e == turn'[t].err[1]
            IN  /\ error' = displayErrorMessage(e)
                /\ error' # <<>>
                /\ HasMsg(messages', t) =>
                      /\ Msg(messages', t).text = displayErrorMessage(e)
                      /\ Msg(messages', t).text # <<>>
                /\ (HasMsg(messages, t) /\ ~HasMsg(messages', t)) =>
                      /\ variant = 4
                      /\ isInvalidApiKeyError(e)
                      /\ ~apiKey'
                      /\ Len(messages') = Len(messages) - 1
        /\ (turn[t].pc = "failed" /\ HasMsg(messages, t) /\ HasMsg(messages', t)) =>
              Msg(messages', t).text = Msg(messages, t).text
      ]_vars

\* A turn of variant 3 failed on an invalid key: its message and the banner
\* hold the explanation of that category.
C7_Witness ==
    \E t \in Turns :
        /\ variant = 3
        /\ turn[t].pc = "failed"
        /\ turn[t].err = Some(ErrInvalidKey)
        /\ HasMsg(messages, t)
        /\ Msg(messages, t).text = InvalidKeyText
        /\ error = InvalidKeyText

----------------------------------------------------------------------------
(* C8 *)

\* C8: no step lowers totalTokensUsed, except performClearChat, which sets it to 0.
C8_TokensNeverDecrease ==
    [][\/ totalTokensUsed' >= totalTokensUsed
       \/ (performClearChat /\ totalTokensUsed' = 0)]_vars

\* Two turns have completed and each has recorded the usage of its last chunk.
C8_Witness ==
    /\ totalTokensUsed = 2 * 600000
    /\ \A t \in Turns : turn[t].pc = "completed"

----------------------------------------------------------------------------
(* C9 *)

\* C9: in every state, for both TokenEstimators, the remaining budget is
\* max(0, limit - consumed) and so never negative, the over-limit condition is
\* the boolean consumed >= limit, and the estimated remaining turns are never
\* negative and 0 whenever the session is over the limit.
C9_RemainingNeverNegative ==
    LET remaining == remainingTokens(TOTAL_TOKEN_LIMIT, totalTokensUsed)
        over == isOverLimit(TOTAL_TOKEN_LIMIT, totalTokensUsed)
        costs == { estimatedCostPerTurnA(knowledgeBaseTokens, totalTokensUsed, userMessagesCount),
                   estimatedCostPerTurnB(knowledgeBaseTokens, totalTokensUsed, userMessagesCount) }
    IN  /\ remaining >= 0
        /\ remaining = (IF totalTokensUsed > TOTAL_TOKEN_LIMIT THEN 0
                        ELSE TOTAL_TOKEN_LIMIT - totalTokensUsed)
        /\ over \in BOOLEAN
        /\ over <=> (totalTokensUsed >= TOTAL_TOKEN_LIMIT)
        /\ \A cost \in costs :
              /\ estimatedRemainingTurns(TOTAL_TOKEN_LIMIT, totalTokensUsed, cost) >= 0
              /\ over => estimatedRemainingTurns(TOTAL_TOKEN_LIMIT, totalTokensUsed, cost) = 0
              /\ (~over /\ cost > 0) =>
                    estimatedRemainingTurns(TOTAL_TOKEN_LIMIT, totalTokensUsed, cost) * cost <= remaining

\* The recorded usages have pushed the consumption above the limit.
C9_Witness ==
    /\ totalTokensUsed > TOTAL_TOKEN_LIMIT
    /\ remainingTokens(TOTAL_TOKEN_LIMIT, totalTokensUsed) = 0
    /\ isOverLimit(TOTAL_TOKEN_LIMIT, totalTokensUsed)
    /\ userMessagesCount > 0

----------------------------------------------------------------------------
(* C10 *)

\* Idle -> Requesting -> Streaming -> {Completed, Cancelled, Failed}, a failure
\* being possible from Requesting too; "breaking" is the part of Streaming
\* after the loop has seen the stop flag, and "refused" is a call that
\* returned before it became a turn.
Transitions ==
    { <<"idle", "requesting">>, <<"idle", "refused">>,
      <<"requesting", "streaming">>, <<"requesting", "failed">>,
      <<"streaming", "breaking">>, <<"streaming", "completed">>,
      <<"streaming", "cancelled">>, <<"streaming", "failed">>,
      <<"breaking", "cancelled">> }

\* C10: every call changes phase along the transitions above only; once it is
\* completed, cancelled or failed (or has refused) nothing of it changes any
\* more; and the text of its model message changes only by a chunk being
\* appended while it is streaming, or by the failure step writing the
\* explanation: it is blank until the stream is open and fixed once the turn
\* has ended.
C10_TurnStateMachine ==
    [][\A t \in Turns :
        /\ (turn'[t].pc # turn[t].pc) => <<turn[t].pc, turn'[t].pc>> \in Transitions
        /\ (turn[t].pc \in Terminal \cup {"refused"}) => turn'[t] = turn[t]
        /\ (turn[t].pc = "requesting" /\ HasMsg(messages, t)) => Msg(messages, t).text = <<>>
        /\ (HasMsg(messages, t) /\ HasMsg(messages', t)
                /\ Msg(messages', t).text # Msg(messages, t).text) =>
              \/ /\ turn[t].pc = "streaming"
                 /\ turn'[t].pc = "streaming"
                 /\ IsPrefix(Msg(messages, t).text, Msg(messages', t).text)
              \/ /\ InFlight(t)
                 /\ turn'[t].pc = "failed"
      ]_vars

\* The three terminal states are reached by turns whose messages are in the list.
C10_Witness ==
    \E t1, t2 \in Turns :
        /\ turn[t1].pc = "completed"
        /\ turn[t2].pc = "failed"
        /\ HasMsg(messages, t1)
        /\ Msg(messages, t1).text = T5 \o T7
        /\ HasMsg(messages, t2)

----------------------------------------------------------------------------
(* C11 *)

----------------------------------------------------------------------------
(* C12 *)

----------------------------------------------------------------------------
(* C13 *)

\* C13: a failure whose error text matches both the invalid-key pattern and
\* the billing pattern gets the invalid-key treatment wherever there is one
\* (variant 3 writes the invalid-key explanation, variant 4 shows the
\* invalid-key banner and removes the key), and in no variant the billing
\* explanation, whatever the order of the two phrases and their letter case.
C13_InvalidKeyBeforeBilling ==
    [][\A t \in Turns :
          (Fails(t) /\ isInvalidApiKeyError(turn'[t].err[1]) /\ isBillingError(turn'[t].err[1])) =>
              /\ variant = 3 =>
                    /\ error' = InvalidKeyText
                    /\ HasMsg(messages', t) => Msg(messages', t).text = InvalidKeyText
              /\ variant = 4 => (error' = InvalidKeyBannerText /\ ~apiKey')
              /\ error' # BillingText
              /\ HasMsg(messages', t) => Msg(messages', t).text # BillingText
      ]_vars

\* In variant 3 one turn failed on a text with the billing phrase first and
\* another on a text in capitals with the billing phrase last; both show the
\* invalid-key explanation.
C13_Witness ==
    \E t1, t2 \in Turns :
        /\ variant = 3
        /\ turn[t1].pc = "failed" /\ turn[t1].err = Some(ErrBillingInvalidKey)
        /\ turn[t2].pc = "failed" /\ turn[t2].err = Some(ErrDeniedBilling)
        /\ HasMsg(messages, t1) /\ Msg(messages, t1).text = InvalidKeyText
        /\ HasMsg(messages, t2) /\ Msg(messages, t2).text = InvalidKeyText

----------------------------------------------------------------------------
(* C14 *)

\* C14 (as claimed): a failure with the error text "Requested entity was not
\* found." shows an invalid-key explanation and removes the credential.
C14_EntityNotFoundInvalidatesKey ==
    [][\A t \in Turns :
          (Fails(t) /\ turn'[t].err = Some(ErrEntityNotFound)) =>
              /\ error' \in {InvalidKeyText, InvalidKeyBannerText}
              /\ ~apiKey'
      ]_vars

----------------------------------------------------------------------------
(* C15 *)

\* C15 (as claimed): a failure whose error text matches a token-limit pattern
\* and no earlier pattern is not given the explanation of an unmatched error.
C15_TokenLimitHasItsOwnCategory ==
    [][\A t \in Turns :
          (/\ Fails(t)
           /\ turn'[t].err[1] \in TokenLimitErrors
           /\ ~isInvalidApiKeyError(turn'[t].err[1])
           /\ ~isBillingError(turn'[t].err[1])) =>
              error' \notin {GenericErrorText, GenericErrorConsoleText}
      ]_vars

----------------------------------------------------------------------------
(* C16 *)

\* C16: a turn can be attempted without a key only where the input is not
\* disabled for it (variants 1 and 3).  Variant 3 ends it at once with the
\* configuration explanation on the model message; in variant 1 runChatStream
\* rejects with its missing-key error, whichever of the three it is, and that
\* text, not the unexpected-error text, is written on the model message and in
\* the banner.  No stream is opened, isLoading ends false and totalTokensUsed
\* does not change.
C16_MissingCredentialExplained ==
    [][\A t \in Turns :
          /\ (turn[t].pc = "idle" /\ turn'[t].pc # "idle" /\ ~apiKey) =>
                /\ variant \in {1, 3}
                /\ variant = 1 => turn'[t].pc = "requesting"
                /\ variant = 3 =>
                      /\ turn'[t].pc = "refused"
                      /\ Msg(messages', t).text = ConfigErrorText
                      /\ ~isLoading'
                /\ totalTokensUsed' = totalTokensUsed
          /\ (turn[t].pc = "requesting" /\ ~apiKey /\ turn'[t] # turn[t]) =>
                /\ turn'[t].pc = "failed"
                /\ turn'[t].err[1] \in MissingKeyErrors
                /\ error' = turn'[t].err[1]
                /\ error' \notin {GenericErrorText, GenericErrorConsoleText}
                /\ HasMsg(messages', t) => Msg(messages', t).text = turn'[t].err[1]
                /\ ~isLoading'
                /\ totalTokensUsed' = totalTokensUsed
      ]_vars

\* In variant 1, without a key, a turn failed on "API_KEY_MISSING" and its
\* model message shows that text.
C16_Witness ==
    \E t \in Turns :
        /\ variant = 1
        /\ ~apiKey
        /\ turn[t].pc = "failed"
        /\ turn[t].err = Some(ErrKeyMissing)
        /\ HasMsg(messages, t)
        /\ Msg(messages, t).text = ErrKeyMissing
        /\ ~isLoading
        /\ totalTokensUsed = 0

----------------------------------------------------------------------------
(* C17 *)

\* C17 (as claimed): once a turn has completed and consumed tokens, both
\* estimators take as cost per turn the tokens consumed divided by the number
\* of completed turns, so
\* that refused, cancelled and failed turns do not enter the average; before
\* that they take the static estimate.
C17_AverageOverCompletedTurns ==
    LET turnsCompleted == Cardinality({ t \in Turns : turn[t].pc = "completed" })
        costA == estimatedCostPerTurnA(knowledgeBaseTokens, totalTokensUsed, userMessagesCount)
        costB == estimatedCostPerTurnB(knowledgeBaseTokens, totalTokensUsed, userMessagesCount)
    IN  /\ (turnsCompleted > 0 /\ totalTokensUsed > 0) =>
              /\ costA = Round(totalTokensUsed, turnsCompleted)
              /\ costB = Round(totalTokensUsed, turnsCompleted)
        /\ turnsCompleted = 0 =>
              /\ costA = estimatedCostPerTurnA(knowledgeBaseTokens, 0, 0)
              /\ costB = estimatedCostPerTurnB(knowledgeBaseTokens, 0, 0)

----------------------------------------------------------------------------
(* C18 *)

\* C18: as long as a turn has not failed and its model message is in the
\* list, every step leaves the text of that message as a prefix of the new
\* text, and likewise the text accumulated by the loop; a step that accepts a
\* chunk makes the message's text the accumulated text with the chunk's text
\* at its end.
C18_TextAppendOnly ==
    [][\A t \in Turns :
          /\ (InFlight(t) /\ InFlight(t)') => IsPrefix(turn[t].fullText, turn'[t].fullText)
          /\ (InFlight(t) /\ turn'[t].pc # "failed"
                /\ HasMsg(messages, t) /\ HasMsg(messages', t)) =>
                IsPrefix(Msg(messages, t).text, Msg(messages', t).text)
          /\ (turn[t].pc = "streaming" /\ Len(turn'[t].accepted) = Len(turn[t].accepted) + 1) =>
                /\ turn'[t].fullText = turn[t].fullText \o Last(turn'[t].accepted)
                /\ HasMsg(messages', t) => Msg(messages', t).text = turn'[t].fullText
      ]_vars

\* A streaming turn has accepted two chunks and its message shows the text
\* of the first followed by the text of the second.
C18_Witness ==
    \E t \in Turns :
        /\ turn[t].pc = "streaming"
        /\ Len(turn[t].accepted) = 2
        /\ HasMsg(messages, t)
        /\ Msg(messages, t).text = T5 \o T7

----------------------------------------------------------------------------
(* C19 *)

\* C19 (as claimed): the chunk that arrives when the loop observes the
\* cancellation is recorded as the last chunk.
C19_ChunkAtCancellationRecorded ==
    [][\A t \in Turns :
          (turn[t].pc = "streaming" /\ turn'[t].pc = "breaking") =>
              IF turn'[t].lastChunk = NoChunk THEN FALSE
              ELSE turn'[t].lastChunk[1].text = ChunkTextAt(Len(turn[t].accepted) + 1)
      ]_vars

\* C19 (amended): while a turn is in flight the loop holds the last chunk it
\* accepted, and holds one exactly if it accepted any: a step that accepts a
\* chunk records that chunk, the step that observes the cancellation drops
\* the chunk it was resumed with and keeps the one recorded before, and no
\* other step of the turn changes it.
C19_LastAcceptedChunkRetained ==
    [][\A t \in Turns :
          /\ (turn[t].pc = "streaming" /\ Len(turn'[t].accepted) = Len(turn[t].accepted) + 1) =>
                /\ ~stopStreamingRef
                /\ \E m \in Metadata :
                      turn'[t].lastChunk = Some(Chunk(Len(turn'[t].accepted), m))
          /\ (turn[t].pc = "streaming" /\ turn'[t].pc = "breaking") =>
                /\ stopStreamingRef
                /\ turn'[t].lastChunk = turn[t].lastChunk
                /\ turn'[t].accepted = turn[t].accepted
          /\ (InFlight(t) /\ InFlight(t)' /\ turn'[t].accepted = turn[t].accepted) =>
                turn'[t].lastChunk = turn[t].lastChunk
          /\ InFlight(t) => (turn[t].lastChunk = NoChunk <=> turn[t].accepted = <<>>)
      ]_vars

\* A turn accepted two chunks, then observed the cancellation on the arrival
\* of a third: it still holds the second.
C19_Witness ==
    \E t \in Turns :
        /\ turn[t].pc = "breaking"
        /\ Len(turn[t].accepted) = 2
        /\ turn[t].lastChunk # NoChunk
        /\ turn[t].lastChunk[1].text = T7

----------------------------------------------------------------------------
(* C20 *)

\* C20 (as claimed): when the extraction of some of the files of a call of
\* updateKnowledgeBase fails, an error is reported, isParsing is false again,
\* and the knowledge base is the joined text of the files of the call that
\* did extract, in the order of the list.
C20_FailureSparesOtherFiles ==
    [][\A j \in Jobs :
          (job[j].pc = "extracting" /\ job'[j].pc = "failed") =>
              /\ error' \in ParseErrors
              /\ ~isParsing'
              /\ knowledgeBase' =
                    JoinedTexts(SelectSeq(job[j].files, LAMBDA f : f \notin job'[j].failed))
      ]_vars

----------------------------------------------------------------------------
(* C21 *)

\* The last call of runChatStream.
Generated == generation # Unset

Call == generation[1]

\* The system instruction is the configured one followed by a block that
\* opens with begin, closes with end and holds exactly the context.
Delimited(instruction, settings, begin, context, end) ==
    /\ Len(instruction) = Len(settings.systemInstruction) + Len(context) + 2
    /\ SubSeq(instruction, 1, Len(settings.systemInstruction)) = settings.systemInstruction
    /\ instruction[Len(settings.systemInstruction) + 1] = begin[1]
    /\ SubSeq(instruction, Len(settings.systemInstruction) + 2, Len(instruction) - 1) = context
    /\ instruction[Len(instruction)] = end[1]

PassesThrough ==
    /\ Call.request.model = Call.settings.model
    /\ Call.request.temperature = Call.settings.temperature

\* C21 as stated: every generation request has the raw question as its user
\* content, the model and the temperature of the settings, and a system
\* instruction that is the configured one when the context is empty and the
\* configured one followed by a delimited block of exactly the context
\* otherwise.
C21_RequestCarriesRawQuery ==
    Generated =>
        /\ Call.request.contents = Call.prompt
        /\ PassesThrough
        /\ IF Call.context = <<>>
           THEN Call.request.systemInstruction = Call.settings.systemInstruction
           ELSE \/ Delimited(Call.request.systemInstruction, Call.settings,
                             ContextBegin, Call.context, ContextEnd)
                \/ Delimited(Call.request.systemInstruction, Call.settings,
                             KnowledgeBaseBegin, Call.context, KnowledgeBaseEnd)

\* C21 amended: the model and the temperature pass through in every snapshot
\* of the service.  The snapshot of lines 158-195 sends the raw question and
\* adds the delimited context block only for a non-empty context; the one of
\* lines 90-128 sends the raw question and always adds the block, also around
\* an empty knowledge base; the one of lines 21-59 leaves the system
\* instruction alone and sends a user content that wraps the knowledge base
\* and the question.
C21_RequestPerService ==
    Generated =>
        /\ PassesThrough
        /\ Call.service = 3 =>
              /\ Call.request.contents = Call.prompt
              /\ IF Call.context = <<>>
                 THEN Call.request.systemInstruction = Call.settings.systemInstruction
                 ELSE Delimited(Call.request.systemInstruction, Call.settings,
                                ContextBegin, Call.context, ContextEnd)
        /\ Call.service = 2 =>
              /\ Call.request.contents = Call.prompt
              /\ Delimited(Call.request.systemInstruction, Call.settings,
                           KnowledgeBaseBegin, Call.context, KnowledgeBaseEnd)
        /\ Call.service = 1 =>
              /\ Call.request.systemInstruction = Call.settings.systemInstruction
              /\ Call.request.contents # Call.prompt
              /\ Len(Call.request.contents) = Len(Call.context) + Len(Call.prompt) + 2
              /\ SubSeq(Call.request.contents, 2, Len(Call.context) + 1) = Call.context
              /\ SubSeq(Call.request.contents, Len(Call.context) + 3,
                        Len(Call.request.contents)) = Call.prompt

\* The newest snapshot is called with a context and a non-default temperature.
C21_Witness ==
    /\ Generated
    /\ Call.service = 3
    /\ Call.context = <<"k", "b">>
    /\ Call.prompt = <<"q">>
    /\ Call.settings.temperature = 7
    /\ Call.request.systemInstruction = <<"S">> \o ContextBegin \o <<"k", "b">> \o ContextEnd

----------------------------------------------------------------------------
(* C22, C23 *)

Ranked == ranking # Unset

Ranking == ranking[1]

\* The chunk of the call with the given index shares a token with the query.
Overlaps(candidate) ==
    \E token \in tokenize(Ranking.query) : token \in tokenize(candidate.text)

\* C22: the chunks of the context rank returns are chunks of the call, in
\* ascending order of their original index whatever their scores, at most
\* topK of them, and the context is their texts joined by the separator.
C22_ContextInIndexOrder ==
    Ranked =>
        /\ Len(Ranking.retained) <= Ranking.topK
        /\ \A i \in 1..Len(Ranking.retained) :
              /\ Ranking.retained[i].index \in 1..Len(Ranking.chunks)
              /\ Ranking.retained[i] = Ranking.chunks[Ranking.retained[i].index]
        /\ \A i, j \in 1..Len(Ranking.retained) :
              i < j => Ranking.retained[i].index < Ranking.retained[j].index
        /\ Ranking.context =
              Join([i \in 1..Len(Ranking.retained) |-> Ranking.retained[i].text],
                   ContextSeparator)

\* Two retained chunks of which the later one matches more query tokens, so
\* that the order by score is not the order by index.
C22_Witness ==
    /\ Ranked
    /\ Len(Ranking.retained) = 2
    /\ Cardinality(tokenize(Ranking.query) \cap tokenize(Ranking.retained[1].text))
          < Cardinality(tokenize(Ranking.query) \cap tokenize(Ranking.retained[2].text))
    /\ Len(Ranking.chunks) = 3

\* C23: rank returns no chunk that shares no token with the query, also when
\* fewer than topK chunks share one, and a query without tokens gets the
\* empty context.
C23_NoZeroOverlap ==
    Ranked =>
        /\ \A i \in 1..Len(Ranking.retained) : Overlaps(Ranking.retained[i])
        /\ tokenize(Ranking.query) = {} => Ranking.retained = <<>> /\ Ranking.context = <<>>

\* Three chunks, topK 3, and one chunk without overlap among the first three
\* by score: it is dropped and the context has two chunks.
C23_Witness ==
    /\ Ranked
    /\ Ranking.topK = 3
    /\ Len(Ranking.chunks) = 3
    /\ Len(Ranking.retained) = 2
    /\ \E i \in 1..3 : ~Overlaps(Ranking.chunks[i])

----------------------------------------------------------------------------
(* C24 *)

Chunked == chunking # Unset

Chunking == chunking[1]

\* The text holds no sentence boundary: it is one sentence.
SingleSentence(text) ==
    ~ \E i \in 1..(Len(text) - 1) : text[i] \in EndOfSentence /\ IsSpace(text[i + 1])

\* C24: chunk returns non-empty chunks only, with unique indices that grow
\* strictly in the order of emission; no chunk is longer than maxChunkChars
\* unless it is a single sentence that alone exceeds the limit; the empty
\* input gives the empty sequence.
C24_ChunksBoundedAndOrdered ==
    Chunked =>
        /\ \A i \in 1..Len(Chunking.chunks) : Chunking.chunks[i].text # <<>>
        /\ \A i, j \in 1..Len(Chunking.chunks) :
              i < j => Chunking.chunks[i].index < Chunking.chunks[j].index
        /\ \A i \in 1..Len(Chunking.chunks) :
              \/ Len(Chunking.chunks[i].text) <= Chunking.maxChunkChars
              \/ SingleSentence(Chunking.chunks[i].text)
        /\ Chunking.text = <<>> => Chunking.chunks = <<>>

\* A paragraph of two sentences over the limit: the first sentence fits, the
\* second alone exceeds the limit and is a chunk of its own.
C24_Witness ==
    /\ Chunked
    /\ Chunking.text = <<".", " ", "a", "a", "a">>
    /\ Chunking.maxChunkChars = 2
    /\ Len(Chunking.chunks) = 2
    /\ Chunking.chunks[1].text = <<".">>
    /\ Chunking.chunks[2].text = <<"a", "a", "a">>

----------------------------------------------------------------------------
(* C25 *)

\* C25: when a turn of the variant with the key dialog fails on an invalid
\* key, the user message and the model bubble of that turn are both removed:
\* no message of the turn is left in the list.
C25_InvalidKeyRemovesTurn ==
    [][\A t \in Turns :
          (Fails(t) /\ variant = 4 /\ isInvalidApiKeyError(turn'[t].err[1])) =>
              \A i \in 1..Len(messages') : messages'[i].turn # t
      ]_vars

----------------------------------------------------------------------------
(* C26 *)

\* C26: a step changes the text of a message only if the message is the model
\* message of a turn in flight, whatever the interleaving of chunks, failures
\* and clear chat; the greeting, in the list and in INITIAL_MESSAGE, keeps
\* its text.
C26_WritesOnlyOwnMessage ==
    [][/\ \A i \in 1..Len(messages') :
             ( /\ i <= Len(messages)
               /\ messages'[i].turn = messages[i].turn
               /\ messages'[i].role = messages[i].role
               /\ messages'[i].text # messages[i].text ) =>
                 \E t \in Turns : /\ InFlight(t)
                                  /\ messages[i].turn = t
                                  /\ messages[i].role = "model"
       /\ INITIAL_MESSAGE'.text = INITIAL_MESSAGE.text
      ]_vars

----------------------------------------------------------------------------
(* C27 *)

\* C27: clear chat sets totalTokensUsed to 0, and afterwards only turns sent
\* after the clear add to it: a turn whose messages the clear removed from
\* the list, being in flight at the time, ends without changing the total.
C27_ClearedSessionCountsOwnTurns ==
    [][/\ performClearChat => totalTokensUsed' = 0
       /\ \A t \in Turns :
             (InFlight(t) /\ turn'[t].pc \in Terminal /\ ~HasMsg(messages, t)) =>
                 totalTokensUsed' = totalTokensUsed
      ]_vars

----------------------------------------------------------------------------
(* C28 *)

Extracting(j) == job[j].pc = "extracting"

\* C28: isParsing is true as long as an extraction runs; and once none runs
\* any more, all having succeeded, the knowledge base is the joined text of
\* exactly the files in the list, empty for the empty list.
C28_KnowledgeBaseFollowsFileList ==
    /\ (\E j \in Jobs : Extracting(j)) => isParsing
    /\ ( /\ \A j \in Jobs : job[j].pc \in {"idle", "done"}
         /\ \E j \in Jobs : job[j].pc = "done" ) =>
           knowledgeBase = JoinedTexts(knowledgeFiles)

----------------------------------------------------------------------------
(* C29 *)

\* C29: the message list is the greeting followed by pairs of a user message
\* and a model message.
C29_GreetingThenPairs ==
    /\ Len(messages) >= 1
    /\ messages[1].role = "model"
    /\ messages[1].turn = 0
    /\ Len(messages) % 2 = 1
    /\ \A i \in 2..Len(messages) :
          messages[i].role = (IF i % 2 = 0 THEN "user" ELSE "model")

----------------------------------------------------------------------------
(* C30 *)

\* C30: a stop request cancels only the turn in flight when it is made.  The
\* stop flag is false once a turn is sent, and only handleStopGeneration
\* raises it, so the flag a turn observes was raised while that turn was in
\* flight; a stop pressed after the end of a turn, before the next render,
\* is reset by the next send.  No two turns are in flight together.
C30_StopCancelsOnlyItsTurn ==
    [][/\ \A t \in Turns :
             (turn[t].pc = "idle" /\ turn'[t].pc = "requesting") => ~stopStreamingRef'
       /\ (~stopStreamingRef /\ stopStreamingRef') => handleStopGeneration
       /\ \A t1, t2 \in Turns : (InFlight(t1)' /\ InFlight(t2)') => t1 = t2
       /\ \A t \in Turns :
             (InFlight(t) /\ turn'[t].pc \in {"breaking", "cancelled"}) => stopStreamingRef
      ]_vars

\* The first turn was cancelled by a stop; the second turn, sent afterwards,
\* accepted both chunks and committed the token count of the last one.
C30_Witness ==
    /\ turn[1].pc = "cancelled"
    /\ turn[2].pc = "completed"
    /\ HasMsg(messages, 2)
    /\ Msg(messages, 2).text = T5 \o T7
    /\ totalTokensUsed > 0

====
